---------------------------- MODULE Spec2Model ----------------------------
(***************************************************************************)
(* The MNIST notebook tf_classification_mnist: its input pipeline          *)
(* (normalize_img, cache, shuffle, batch), the training run                *)
(* model.fit(..., callbacks=[early_stopping]) and the inference cell.      *)
(*                                                                         *)
(* The notebook is glue around tf.data, tf.keras and numpy; each call is   *)
(* modelled by what the library does for the arguments the notebook gives  *)
(* it.  Four specifications share the module, one per part of the          *)
(* notebook; the variables of the other parts stay at their idle values.   *)
(***************************************************************************)
EXTENDS Integers, Sequences, FiniteSets

VARIABLES
    \* ---- model.fit and its callbacks
    pc,             \* where model.fit is: fit, train, eval, epoch_end, train_end, done
    epoch,          \* the epoch being run, 1-based (0 before the first)
    step,           \* training batches consumed in this epoch
    weights,        \* the Model Parameters, named by <<epoch, step>> that produced them
    val_loss,       \* epoch_logs["val_loss"] of the last evaluation
    val_weights,    \* the parameters that evaluation was run with
    history,        \* history.history, one record per on_epoch_end of History
    wait,           \* EarlyStopping.wait
    best,           \* EarlyStopping.best
    best_epoch,     \* the epoch whose val_loss is EarlyStopping.best
    best_weights,   \* EarlyStopping.best_weights (<<>> for None)
    stop_training,  \* model.stop_training
    stopped_epoch,  \* EarlyStopping.stopped_epoch (0: not stopped early)
    \* ---- one split's input pipeline: map, cache, (shuffle,) batch, prefetch
    split,          \* "train" or "test"
    num_examples,   \* ds_info.splits[split].num_examples
    cache,          \* the elements .cache() holds
    cache_done,     \* .cache() has seen the end of its input
    buffer,         \* the elements in the shuffle buffer
    pos,            \* elements read from .cache() in this pass
    out,            \* the Batches this pass has produced
    bpc,            \* the pass: iter, end
    pass,           \* passes started over the split
    \* ---- ds.map(normalize_img) on one Sample
    image,          \* the Sample's pixels, uint8
    label,          \* the Sample's label
    nimage,         \* the pixels normalize_img returns, float32
    nlabel,         \* the label normalize_img returns
    npc,            \* loaded, mapped
    \* ---- the inference cell
    uimage,         \* np.array(img): the user's image, uint8
    imgarr,         \* imgarr after imgarr / np.max(imgarr), float64
    params,         \* which trained Model Parameters the model holds
    relu_nan,       \* whether this build's relu hands a NaN on (else it gives 0)
    logits,         \* model.predict(imgarr)[0]
    prediction,     \* np.argmax(model(imgarr))
    ipc             \* loaded, normalized, predicted, done

fitVars == <<pc, epoch, step, weights, val_loss, val_weights, history, wait,
             best, best_epoch, best_weights, stop_training, stopped_epoch>>

pipeVars == <<split, num_examples, cache, cache_done, buffer, pos, out, bpc, pass>>

normVars == <<image, label, nimage, nlabel, npc>>

inferVars == <<uimage, imgarr, params, relu_nan, logits, prediction, ipc>>

vars == <<fitVars, pipeVars, normVars, inferVars>>

\* Each part of the notebook leaves the other parts' state alone.
OnlyFit == UNCHANGED <<pipeVars, normVars, inferVars>>
OnlyPipe == UNCHANGED <<fitVars, normVars, inferVars>>
OnlyNorm == UNCHANGED <<fitVars, pipeVars, inferVars>>
OnlyInfer == UNCHANGED <<fitVars, pipeVars, normVars>>

(***************************************************************************)
(* Bounds.  epochs=100 and batch(128) are scaled down so that every        *)
(* sequence of validation losses can be enumerated; patience and           *)
(* min_delta keep the notebook's values.                                   *)
(***************************************************************************)
\* model.fit(epochs=100), scaled: larger than patience + 1, so that both
\* terminal states occur.
EpochCap == 7
\* the largest validation loss, in units of 0.0005
MaxLoss == 3
\* .batch(128), scaled
BatchSize == 3
\* the largest split (ds_info.splits[...].num_examples, scaled)
MaxSplit == 5

\* passes over a split (one per epoch)
MaxPasses == 2

\* pixels of a Sample's image (28 x 28, scaled)
NPix == 1

\* the largest uint8 intensity, and the divisor of normalize_img
MaxPixel == 255
\* labels of MNIST: the digits 0..9
NumClasses == 10
\* bits of a float32 significand
Significand == 24

\* pixels of the user's image (28 x 28, scaled to one row)
UserPix == 2
\* layers.Dense(64), scaled
DenseUnits == 2
\* the trained parameter sets tried, less one
MaxParams == 1

\* layers.Conv2D(kernel_size=4)
kernel_size == 4
\* layers.Conv2D(filters=3)
filters == 3

\* EarlyStopping(patience=5)
patience == 5
\* EarlyStopping(min_delta=0.001); a loss is counted in units of 0.0005
min_delta == 2

Losses == 0..MaxLoss
\* np.Inf, the initial EarlyStopping.best: no loss + min_delta reaches it
Inf == MaxLoss + min_delta + 1
\* get_weights() of a callback that holds none
None == <<>>

\* batches of one pass over ds_train: the split in groups of BatchSize, the
\* last one partial
NumTrainBatches == (MaxSplit + BatchSize - 1) \div BatchSize

(***************************************************************************)
(* tf.keras.callbacks.EarlyStopping(patience=5, min_delta=0.001,           *)
(* restore_best_weights=True), monitor="val_loss", mode "auto" -> np.less; *)
(* __init__ negates min_delta for np.less, so the test                     *)
(* monitor_op(current - min_delta, best) is current + 0.001 < best.        *)
(***************************************************************************)
\* An improvement of exactly min_delta counted as one.
IsImprovementLax(current, reference) == current + min_delta <= reference

\* EarlyStopping._is_improvement / monitor_op(current - min_delta, best)
IsImprovement(current, reference) == current + min_delta < reference

\* A callback that never restores (restore_best_weights left False).
EarlyStoppingNoRestore(cur, w, ep, es) ==
    IF IsImprovement(cur, es.best)
    THEN [es EXCEPT !.best = cur, !.best_epoch = ep, !.best_weights = w,
                    !.wait = 0]
    ELSE IF es.wait + 1 >= patience
         THEN [es EXCEPT !.wait = es.wait + 1, !.stop = TRUE,
                         !.stopped_epoch = ep, !.weights = w]
         ELSE [es EXCEPT !.wait = es.wait + 1, !.weights = w]

\* EarlyStopping.on_epoch_end(epoch, logs): cur is logs["val_loss"], w the
\* model's weights, es the callback's fields.  The result carries the fields
\* and the model's weights and stop_training after the call.
EarlyStoppingOnEpochEnd(cur, w, ep, es) ==
    IF IsImprovement(cur, es.best)
    THEN [es EXCEPT !.best = cur, !.best_epoch = ep, !.best_weights = w,
                    !.wait = 0]
    ELSE IF es.wait + 1 >= patience
         THEN [es EXCEPT !.wait = es.wait + 1, !.stop = TRUE,
                         !.stopped_epoch = ep, !.weights = es.best_weights]
         ELSE [es EXCEPT !.wait = es.wait + 1, !.weights = w]

\* A History that keeps the last epoch only.
HistoryKeepsLast(h, ep, logs) == <<[epoch |-> ep, val_loss |-> logs]>>

\* History.on_epoch_end(epoch, logs): one value appended per metric.
HistoryOnEpochEnd(h, ep, logs) == Append(h, [epoch |-> ep, val_loss |-> logs])

\* A loop that only stop_training ends.
FitLoopEndsOnStopOnly(stop, ep) == stop

\* The fit loop's test after callbacks.on_epoch_end: stop_training or the
\* last of the epochs ends the loop.
FitLoopEnds(stop, ep) == stop \/ ep >= EpochCap


(***************************************************************************)
(* The input pipeline of a split:                                          *)
(*   ds.map(normalize_img).cache()[.shuffle(num_examples)].batch(128)      *)
(*     .prefetch(AUTOTUNE)                                                 *)
(* A sample is named by its place in the split.  prefetch only prepares    *)
(* the next Batch ahead of time and changes no element.                    *)
(***************************************************************************)
Min(a, b) == IF a < b THEN a ELSE b

Range(s) == {s[i] : i \in 1..Len(s)}

\* The split as tfds.load delivers it.
Source(n) == [i \in 1..n |-> i]

\* The sequences of k distinct elements of S.
Arrangements(S, k) ==
    {s \in [1..k -> S] : \A i, j \in 1..k : i # j => s[i] # s[j]}

RECURSIVE Flat(_)
\* The Batches of a pass, concatenated.
Flat(bs) == IF bs = <<>> THEN <<>> ELSE Head(bs) \o Flat(Tail(bs))

\* batch(128, drop_remainder=True)
BatchEmitsFullOnly(k) == k = BatchSize

\* A batch that reads one element too many.
BatchTakeTooMany(avail) == Min(BatchSize + 1, avail)

\* .batch(128): a Batch takes the next 128 elements, or those that are left.
BatchTake(avail) == Min(BatchSize, avail)

\* .batch(128), drop_remainder=False: a Batch of k elements is produced unless
\* it is empty, which ends the pass.
BatchEmits(k) == k > 0

\* What .cache() serves: its input on the first pass, its memory afterwards.
CacheServes == IF cache_done THEN cache ELSE Source(num_examples)

InitPipe ==
    /\ split \in {"train", "test"}
    /\ num_examples \in 0..MaxSplit
    /\ cache = <<>>
    /\ cache_done = FALSE
    /\ buffer = {}
    /\ pos = 0
    /\ out = <<>>
    /\ bpc = "iter"
    /\ pass = 1

\* The next Batch of ds_train.  The first call fills the shuffle buffer
\* (buffer_size = num_examples: the whole split, read through .cache());
\* a Batch is then drawn from the buffer, element after element at random.
GetNextTrain ==
    /\ OnlyPipe
    /\ split = "train"
    /\ bpc = "iter"
    /\ LET served == CacheServes
           filled == IF pos = 0 THEN Range(served) ELSE buffer
           k == BatchTake(Cardinality(filled))
       IN /\ pos' = Len(served)
          /\ cache' = served
          /\ cache_done' = TRUE
          /\ \E s \in Arrangements(filled, k) :
                IF BatchEmits(k)
                THEN /\ out' = Append(out, s)
                     /\ buffer' = filled \ Range(s)
                     /\ bpc' = "iter"
                ELSE /\ out' = out
                     /\ buffer' = {}
                     /\ bpc' = "end"
    /\ UNCHANGED <<split, num_examples, pass>>

\* The next Batch of ds_test: the next elements .cache() serves, in order.
GetNextTest ==
    /\ OnlyPipe
    /\ split = "test"
    /\ bpc = "iter"
    /\ LET served == CacheServes
           k == BatchTake(Len(served) - pos)
           s == SubSeq(served, pos + 1, pos + k)
       IN /\ pos' = pos + k
          /\ cache' = IF cache_done THEN cache ELSE cache \o s
          /\ cache_done' = (cache_done \/ k < BatchSize)
          /\ IF BatchEmits(k)
             THEN /\ out' = Append(out, s)
                  /\ bpc' = "iter"
             ELSE /\ out' = out
                  /\ bpc' = "end"
    /\ UNCHANGED <<split, num_examples, buffer, pass>>

\* The next epoch iterates the dataset anew.
Restart ==
    /\ OnlyPipe
    /\ bpc = "end"
    /\ pass < MaxPasses
    /\ pass' = pass + 1
    /\ pos' = 0
    /\ out' = <<>>
    /\ buffer' = {}
    /\ bpc' = "iter"
    /\ UNCHANGED <<split, num_examples, cache, cache_done>>


(***************************************************************************)
(* normalize_img(image, label) = tf.cast(image, tf.float32) / 255., label  *)
(* A float32 is [m, x], the number m * 2^(-x), with m = 0 or               *)
(* 2^23 <= m < 2^24 (no intensity quotient is subnormal or overflows).     *)
(***************************************************************************)
PixelIdx == 1..NPix
Pixels == 0..MaxPixel
Labels == 0..(NumClasses - 1)

MinMant == 2^(Significand - 1)

F32Zero == [m |-> 0, x |-> 0]
F32One == [m |-> MinMant, x |-> Significand - 1]

RECURSIVE F32Normal(_, _)
\* m * 2^(-x), m > 0, with the significand shifted into place.
F32Normal(m, x) == IF m >= MinMant THEN [m |-> m, x |-> x] ELSE F32Normal(2 * m, x + 1)

\* tf.cast(p, tf.float32) of an integer below 2^24: exact.
F32Cast(p) == IF p = 0 THEN F32Zero ELSE F32Normal(p, 0)

RECURSIVE LongDiv(_, _, _, _)
\* <<q, r>> after bits more steps of the binary long division by den.
LongDiv(q, r, den, bits) ==
    IF bits = 0 THEN <<q, r>>
    ELSE IF 2 * r >= den
         THEN LongDiv(2 * q + 1, 2 * r - den, den, bits - 1)
         ELSE LongDiv(2 * q, 2 * r, den, bits - 1)

\* a / b in float32, b # 0: the quotient rounded to nearest, ties to even.
F32Div(a, b) ==
    IF a.m = 0 THEN F32Zero
    ELSE LET k == IF a.m >= b.m THEN Significand - 1 ELSE Significand
             d == LongDiv(a.m \div b.m, a.m % b.m, b.m, k)
             up == 2 * d[2] > b.m \/ (2 * d[2] = b.m /\ d[1] % 2 = 1)
             q == IF up THEN d[1] + 1 ELSE d[1]
         IN IF q = 2 * MinMant
            THEN [m |-> MinMant, x |-> a.x - b.x + k - 1]
            ELSE [m |-> q, x |-> a.x - b.x + k]

\* normalize_img with the wrong divisor (128.)
NormalizeImgHalfScale(img, lbl) ==
    <<[i \in DOMAIN img |-> F32Div(F32Cast(img[i]), F32Cast((MaxPixel + 1) \div 2))], lbl>>

\* normalize_img(image, label)
NormalizeImg(img, lbl) ==
    <<[i \in DOMAIN img |-> F32Div(F32Cast(img[i]), F32Cast(MaxPixel))], lbl>>

\* A Sample of a split, as tfds.load delivers it.
InitNorm ==
    /\ image \in [PixelIdx -> Pixels]
    /\ label \in Labels
    /\ nimage = <<>>
    /\ nlabel = 0
    /\ npc = "loaded"

\* ds.map(normalize_img) reaches the Sample.
MapNormalize ==
    /\ OnlyNorm
    /\ npc = "loaded"
    /\ LET r == NormalizeImg(image, label)
       IN /\ nimage' = r[1]
          /\ nlabel' = r[2]
    /\ npc' = "mapped"
    /\ UNCHANGED <<image, label>>


(***************************************************************************)
(* The inference cell:                                                     *)
(*   imgarr = np.array(img).reshape((1,28,28,1))                           *)
(*   imgarr = imgarr / np.max(imgarr)                                      *)
(*   model.predict(imgarr); np.argmax(model(imgarr))                       *)
(* A float is NaN or a fraction num / den whose denominator den is the     *)
(* image's maximum, the same for every value of one inference (weights and *)
(* biases are integers here), so the arithmetic below is exact.            *)
(***************************************************************************)
UserIdx == 1..UserPix

NaN == [nan |-> TRUE, num |-> 0]
Fin(n) == [nan |-> FALSE, num |-> n]
IsFinite(v) == ~v.nan

\* IEEE addition and multiplication by a finite weight: a NaN stays a NaN.
FAdd(a, b) == IF a.nan \/ b.nan THEN NaN ELSE Fin(a.num + b.num)
FScale(w, a) == IF a.nan THEN NaN ELSE Fin(w * a.num)

RECURSIVE FSum(_, _)
\* f[1] + ... + f[n]
FSum(f, n) == IF n = 0 THEN Fin(0) ELSE FAdd(FSum(f, n - 1), f[n])

\* activation='relu': max(v, 0); what it makes of a NaN depends on the
\* build (propagate says which).
Relu(v, propagate) ==
    IF v.nan THEN (IF propagate THEN NaN ELSE Fin(0))
    ELSE IF v.num > 0 THEN v ELSE Fin(0)

RECURSIVE MaxOf(_, _)
\* np.max of the first n pixels
MaxOf(img, n) ==
    IF n = 0 THEN 0
    ELSE LET m == MaxOf(img, n - 1) IN IF img[n] > m THEN img[n] ELSE m

\* imgarr / np.max(imgarr), element p: 0 / 0 is NaN (numpy warns and goes
\* on); no pixel exceeds the maximum, so nothing is divided into infinity.
NpDivide(p, mx) == IF mx = 0 THEN NaN ELSE Fin(p)

\* Trained parameters, a set of integers per value of params.
ConvKernel(ps, f, j) == ((ps + f + j) % 3) - 1
ConvBias(ps, f) == (ps + f) % 2
Dense1Kernel(ps, u, i) == ((ps + u + 2 * i) % 3) - 1
Dense1Bias(ps, u) == (ps + u + 1) % 2
Dense2Kernel(ps, k, u) == ((2 * ps + k + u) % 3) - 1
Dense2Bias(ps, k) == (ps + k) % 2

\* Conv2D(kernel_size=4, filters=3, activation='relu', padding='same') and
\* Flatten, on a row of pixels: output (i, f) at place (i - 1) * filters + f;
\* 'same' pads one zero before the row and two after it.
ConvFlatten(x, den, ps, propagate) ==
    [c \in 1..(UserPix * filters) |->
        LET i == ((c - 1) \div filters) + 1
            f == ((c - 1) % filters) + 1
            terms == [j \in 1..kernel_size |->
                        LET src == i + j - 2
                        IN IF src \in UserIdx
                           THEN FScale(ConvKernel(ps, f, j), x[src])
                           ELSE Fin(0)]
        IN Relu(FAdd(FSum(terms, kernel_size), Fin(ConvBias(ps, f) * den)),
                propagate)]

\* Dense(64, activation='relu')
Dense1(h, den, ps, propagate) ==
    [u \in 1..DenseUnits |->
        LET terms == [i \in 1..Len(h) |-> FScale(Dense1Kernel(ps, u, i), h[i])]
        IN Relu(FAdd(FSum(terms, Len(h)), Fin(Dense1Bias(ps, u) * den)),
                propagate)]

\* Dense(10): the logits
Dense2(h, den, ps) ==
    [k \in 1..NumClasses |->
        LET terms == [u \in 1..Len(h) |-> FScale(Dense2Kernel(ps, k, u), h[u])]
        IN FAdd(FSum(terms, Len(h)), Fin(Dense2Bias(ps, k) * den))]

\* The model's forward pass.
Forward(x, den, ps, propagate) ==
    Dense2(Dense1(ConvFlatten(x, den, ps, propagate), den, ps, propagate), den, ps)

\* v[a] is greater than v[b] for np.argmax, which takes a NaN for the maximum.
ArgGreater(v, a, b) ==
    IF v[b].nan THEN FALSE
    ELSE IF v[a].nan THEN TRUE ELSE v[a].num > v[b].num

\* np.argmax: the first index, from 0, of the maximum.
ArgMax(v) ==
    CHOOSE k \in 0..(Len(v) - 1) :
        /\ \A j \in 0..(Len(v) - 1) : ~ArgGreater(v, j + 1, k + 1)
        /\ \A j \in 0..(k - 1) : ArgGreater(v, k + 1, j + 1)

\* The image has been opened, converted to "L" and reshaped.
InitInfer ==
    /\ uimage \in [UserIdx -> Pixels]
    /\ params \in 0..MaxParams
    /\ relu_nan \in BOOLEAN
    /\ imgarr = <<>>
    /\ logits = <<>>
    /\ prediction = 0
    /\ ipc = "loaded"

\* imgarr = imgarr / np.max(imgarr)
DivideByMax ==
    /\ OnlyInfer
    /\ ipc = "loaded"
    /\ imgarr' = [i \in UserIdx |-> NpDivide(uimage[i], MaxOf(uimage, UserPix))]
    /\ ipc' = "normalized"
    /\ UNCHANGED <<uimage, params, relu_nan, logits, prediction>>

\* print(model.predict(imgarr))
Predict ==
    /\ OnlyInfer
    /\ ipc = "normalized"
    /\ logits' = Forward(imgarr, MaxOf(uimage, UserPix), params, relu_nan)
    /\ ipc' = "predicted"
    /\ UNCHANGED <<uimage, imgarr, params, relu_nan, prediction>>

\* np.argmax(model(imgarr))
PrintPrediction ==
    /\ OnlyInfer
    /\ ipc = "predicted"
    /\ prediction' = ArgMax(Forward(imgarr, MaxOf(uimage, UserPix), params, relu_nan))
    /\ ipc' = "done"
    /\ UNCHANGED <<uimage, imgarr, params, relu_nan, logits>>

(***************************************************************************)
(* model.fit(ds_train, epochs=100, validation_data=ds_test,                *)
(*           callbacks=[early_stopping])                                   *)
(***************************************************************************)
InitFit ==
    /\ pc = "fit"
    /\ epoch = 0
    /\ step = 0
    /\ weights = <<0, 0>>
    /\ val_loss = Inf
    /\ val_weights = None
    /\ history = <<>>
    /\ wait = 0
    /\ best = Inf
    /\ best_epoch = 0
    /\ best_weights = None
    /\ stop_training = FALSE
    /\ stopped_epoch = 0

\* callbacks.on_train_begin(), then the first epoch begins.
FitBegin ==
    /\ OnlyFit
    /\ pc = "fit"
    /\ wait' = 0
    /\ stopped_epoch' = 0
    /\ best' = Inf
    /\ best_weights' = None
    /\ best_epoch' = 0
    /\ history' = <<>>
    /\ stop_training' = FALSE
    /\ epoch' = 1
    /\ step' = 0
    /\ pc' = "train"
    /\ UNCHANGED <<weights, val_loss, val_weights>>

\* A fit that evaluates after the first training batch of an epoch.
TrainStepEarlyEval ==
    /\ OnlyFit
    /\ pc = "train"
    /\ step < NumTrainBatches
    /\ step' = step + 1
    /\ weights' = <<epoch, step + 1>>
    /\ pc' = "eval"
    /\ UNCHANGED <<epoch, val_loss, val_weights, history, wait, best,
                   best_epoch, best_weights, stop_training, stopped_epoch>>

\* train_function on the next batch of ds_train: one optimizer step.
TrainStep ==
    /\ OnlyFit
    /\ pc = "train"
    /\ step < NumTrainBatches
    /\ step' = step + 1
    /\ weights' = <<epoch, step + 1>>
    /\ pc' = IF step + 1 = NumTrainBatches THEN "eval" ELSE "train"
    /\ UNCHANGED <<epoch, val_loss, val_weights, history, wait, best,
                   best_epoch, best_weights, stop_training, stopped_epoch>>

\* self.evaluate(validation_data): a pass over ds_test, no optimizer step;
\* the loss it finds is any loss.
Evaluate ==
    /\ OnlyFit
    /\ pc = "eval"
    /\ \E v \in Losses : val_loss' = v
    /\ val_weights' = weights
    /\ pc' = "epoch_end"
    /\ UNCHANGED <<epoch, step, weights, history, wait, best, best_epoch,
                   best_weights, stop_training, stopped_epoch>>

\* callbacks.on_epoch_end(epoch, epoch_logs): the user's EarlyStopping, then
\* the History that fit appends to the list; then the loop's test.
EpochEnd ==
    /\ OnlyFit
    /\ pc = "epoch_end"
    /\ LET es == EarlyStoppingOnEpochEnd(val_loss, weights, epoch,
                    [best |-> best, best_epoch |-> best_epoch,
                     best_weights |-> best_weights, wait |-> wait,
                     stop |-> stop_training, stopped_epoch |-> stopped_epoch,
                     weights |-> weights])
       IN /\ best' = es.best
          /\ best_epoch' = es.best_epoch
          /\ best_weights' = es.best_weights
          /\ wait' = es.wait
          /\ stop_training' = es.stop
          /\ stopped_epoch' = es.stopped_epoch
          /\ weights' = es.weights
          /\ history' = HistoryOnEpochEnd(history, epoch, val_loss)
          /\ IF FitLoopEnds(es.stop, epoch)
             THEN /\ pc' = "train_end"
                  /\ UNCHANGED <<epoch, step>>
             ELSE /\ pc' = "train"
                  /\ epoch' = epoch + 1
                  /\ step' = 0
    /\ UNCHANGED <<val_loss, val_weights>>

\* callbacks.on_train_end(); fit returns the History.
TrainEnd ==
    /\ OnlyFit
    /\ pc = "train_end"
    /\ pc' = "done"
    /\ UNCHANGED <<epoch, step, weights, val_loss, val_weights, history, wait,
                   best, best_epoch, best_weights, stop_training,
                   stopped_epoch>>

NextFit == FitBegin \/ TrainStep \/ Evaluate \/ EpochEnd \/ TrainEnd

NextPipe == GetNextTrain \/ GetNextTest \/ Restart

\* The parts of the notebook a specification leaves alone.
IdleFit ==
    /\ pc = "idle"
    /\ epoch = 0
    /\ step = 0
    /\ weights = <<0, 0>>
    /\ val_loss = Inf
    /\ val_weights = None
    /\ history = <<>>
    /\ wait = 0
    /\ best = Inf
    /\ best_epoch = 0
    /\ best_weights = None
    /\ stop_training = FALSE
    /\ stopped_epoch = 0

IdlePipe ==
    /\ split = "none"
    /\ num_examples = 0
    /\ cache = <<>>
    /\ cache_done = FALSE
    /\ buffer = {}
    /\ pos = 0
    /\ out = <<>>
    /\ bpc = "idle"
    /\ pass = 0

IdleNorm ==
    /\ image = <<>>
    /\ label = 0
    /\ nimage = <<>>
    /\ nlabel = 0
    /\ npc = "idle"

IdleInfer ==
    /\ uimage = <<>>
    /\ imgarr = <<>>
    /\ params = 0
    /\ relu_nan = FALSE
    /\ logits = <<>>
    /\ prediction = 0
    /\ ipc = "idle"

NextInfer == DivideByMax \/ Predict \/ PrintPrediction

\* model.fit
Init == InitFit /\ IdlePipe /\ IdleNorm /\ IdleInfer

Next == NextFit

Spec == Init /\ [][Next]_vars

\* fit runs on one thread and never blocks: a step that can be taken is taken.
FairSpec == Spec /\ WF_vars(Next)

\* the input pipeline
InitPipeline == InitPipe /\ IdleFit /\ IdleNorm /\ IdleInfer

NextPipeline == NextPipe

SpecPipeline == InitPipeline /\ [][NextPipeline]_vars

\* normalize_img
InitNormalize == InitNorm /\ IdleFit /\ IdlePipe /\ IdleInfer

NextNormalize == MapNormalize

SpecNormalize == InitNormalize /\ [][NextNormalize]_vars

\* the inference cell
InitInference == InitInfer /\ IdleFit /\ IdlePipe /\ IdleNorm

NextInference == NextInfer

SpecInference == InitInference /\ [][NextInference]_vars

(***************************************************************************)
(* What the claims read off a Training History.                            *)
(***************************************************************************)
RECURSIVE RecordedBest(_, _)
\* The epoch the policy holds to be best after the first i records of h: the
\* last one whose loss undercut the loss of the epoch held best before it by
\* more than min_delta (0: none yet).
RecordedBest(h, i) ==
    IF i = 0 THEN 0
    ELSE LET b == RecordedBest(h, i - 1)
         IN IF b = 0 \/ h[i].val_loss + min_delta < h[b].val_loss THEN i ELSE b

\* Epochs run since the epoch held best.
RunSinceBest(h) == Len(h) - RecordedBest(h, Len(h))

RECURSIVE MinLoss(_, _)
\* The least validation loss among the first i records of h (Inf: none).
MinLoss(h, i) ==
    IF i = 0 THEN Inf
    ELSE LET m == MinLoss(h, i - 1)
         IN IF h[i].val_loss < m THEN h[i].val_loss ELSE m

\* Epoch i failed to improve by at least min_delta on the least loss seen
\* before it.
FailedOnSeen(h, i) == i > 1 /\ ~(h[i].val_loss + min_delta <= MinLoss(h, i - 1))

RECURSIVE FailRun(_, _)
\* The run of such epochs that ends with epoch i.
FailRun(h, i) ==
    IF i = 0 \/ ~FailedOnSeen(h, i) THEN 0 ELSE 1 + FailRun(h, i - 1)

\* The validation loss of the parameters w: the one recorded for the epoch
\* whose last training step produced them.
LossOf(h, w) == h[w[1]].val_loss

Stopped == pc = "done"

\* on_epoch_end has run for this many epochs.
EpochsCompleted ==
    IF pc = "fit" THEN 0
    ELSE IF pc \in {"train_end", "done"} THEN epoch ELSE epoch - 1

(***************************************************************************)
(* C1 as stated: training is halted by early stopping exactly when the     *)
(* Training History ends with a run of patience (5) epochs each of which   *)
(* failed to improve by at least min_delta (0.001) on the least validation *)
(* loss seen before it.                                                    *)
(***************************************************************************)
C1_HaltsOnRunOverBestSeen ==
    stop_training <=> FailRun(history, Len(history)) >= patience

(***************************************************************************)
(* C1 as amended: an epoch counts as an improvement only when its          *)
(* validation loss is lower by MORE than min_delta than the loss the       *)
(* policy holds as best (the loss of the last epoch that counted as an     *)
(* improvement); wait is the number of epochs since that epoch; training   *)
(* is halted by early stopping exactly when that number reaches patience,  *)
(* at the end of the epoch that makes it 5 and not before.                 *)
(***************************************************************************)
C1_HaltsOnRunOverRecordedBest ==
    /\ wait = RunSinceBest(history)
    /\ best_epoch = RecordedBest(history, Len(history))
    /\ stop_training <=> RunSinceBest(history) >= patience
    /\ stop_training =>
          /\ RunSinceBest(history) = patience
          /\ stopped_epoch = Len(history)
          /\ pc \in {"train_end", "done"}

\* Halted by early stopping after an epoch past the first had reset the run.
C1_Witness ==
    /\ Stopped
    /\ stop_training
    /\ best_epoch = 2
    /\ Len(history) = 2 + patience

(***************************************************************************)
(* C2 as stated: in a terminal state the validation loss of the retained   *)
(* Model Parameters is at most the validation loss of every record of the  *)
(* Training History.                                                       *)
(***************************************************************************)
C2_RetainedNeverWorse ==
    Stopped =>
        \A i \in 1..Len(history) :
            LossOf(history, weights) <= history[i].val_loss

(***************************************************************************)
(* C3: after a halt by early stopping the Model Parameters are those held  *)
(* at the end of the epoch the policy recorded as best, which is not the   *)
(* last epoch run.                                                         *)
(***************************************************************************)
C3_RollbackToBest ==
    (stopped_epoch > 0 /\ pc \in {"train_end", "done"}) =>
        /\ weights = <<RecordedBest(history, Len(history)), NumTrainBatches>>
        /\ weights # <<Len(history), NumTrainBatches>>
        /\ LossOf(history, weights) = best

C3_Witness ==
    /\ Stopped
    /\ stopped_epoch = EpochCap
    /\ weights = <<EpochCap - patience, NumTrainBatches>>

(***************************************************************************)
(* C4: whatever the validation losses, fit reaches STOPPED, after at most  *)
(* EpochCap epochs; STOPPED is entered only after early stopping or after  *)
(* the last epoch; in STOPPED nothing trains, updates the parameters or    *)
(* appends to the History.                                                 *)
(***************************************************************************)
C4_Terminates ==
    /\ <>Stopped
    /\ [](epoch <= EpochCap /\ Len(history) <= EpochCap)
    /\ [][(~Stopped /\ Stopped') =>
             (stop_training \/ Len(history) = EpochCap)]_vars
    /\ [][Stopped => UNCHANGED <<pc, epoch, step, weights, history>>]_vars

\* Stopped by the epoch cap, never by early stopping.
C4_Witness ==
    /\ Stopped
    /\ ~stop_training
    /\ Len(history) = EpochCap

(***************************************************************************)
(* C5: the Training History holds one record per completed epoch, in       *)
(* epoch order; a step either leaves it alone or appends one record (the   *)
(* rollback of the parameters included); a finished run of N epochs has N  *)
(* records.                                                                *)
(***************************************************************************)
C5_HistoryAppendOnly ==
    /\ [](/\ Len(history) = EpochsCompleted
          /\ \A i \in 1..Len(history) : history[i].epoch = i
          /\ Stopped => Len(history) = epoch)
    /\ [][\/ history' = history
          \/ /\ Len(history') = Len(history) + 1
             /\ SubSeq(history', 1, Len(history)) = history]_vars

\* The step that rolls the parameters back appended its record.
C5_Witness ==
    /\ pc = "train_end"
    /\ stop_training
    /\ weights # <<epoch, NumTrainBatches>>
    /\ Len(history) = epoch

(***************************************************************************)
(* C10: in every epoch all training batches come first, then the           *)
(* evaluation, run with the parameters the last training batch left and    *)
(* leaving them unchanged, then the History record with that evaluation's  *)
(* loss; the early-stopping fields change only after the evaluation.       *)
(***************************************************************************)
C10_EpochOrder ==
    /\ [](pc = "epoch_end" =>
            /\ step = NumTrainBatches
            /\ val_weights = <<epoch, NumTrainBatches>>
            /\ weights = val_weights)
    /\ [][pc = "eval" => weights' = weights]_vars
    /\ [][history' # history =>
            /\ pc = "epoch_end"
            /\ history' = Append(history, [epoch |-> epoch, val_loss |-> val_loss])]_vars
    /\ [][(wait' # wait \/ stop_training' # stop_training \/ best' # best) =>
            pc = "epoch_end"]_vars

C10_Witness ==
    /\ pc = "epoch_end"
    /\ epoch = 2
    /\ val_weights = <<2, NumTrainBatches>>

(***************************************************************************)
(* C6: the Batches of a pass never hold a sample twice, and a finished     *)
(* pass holds every sample of the split exactly once: in the split's order *)
(* for the test split, in some order for the shuffled train split.         *)
(***************************************************************************)
C6_BatchingExhaustive ==
    LET f == Flat(out)
    IN /\ \A i, j \in 1..Len(f) : i # j => f[i] # f[j]
       /\ Range(f) \subseteq 1..num_examples
       /\ bpc = "end" =>
            /\ Len(f) = num_examples
            /\ Range(f) = 1..num_examples
            /\ split = "test" => f = Source(num_examples)

\* A second, shuffled pass over a train split with a partial last Batch.
C6_Witness ==
    /\ split = "train"
    /\ bpc = "end"
    /\ pass = MaxPasses
    /\ num_examples = MaxSplit
    /\ num_examples % BatchSize # 0
    /\ Flat(out) # Source(num_examples)

(***************************************************************************)
(* C9: every Batch of a pass holds BatchSize samples, except that the last *)
(* Batch produced may hold fewer, and at least one; a Batch that holds     *)
(* fewer is never followed by another.                                     *)
(***************************************************************************)
C9_BatchSizes ==
    \A i \in 1..Len(out) :
        /\ Len(out[i]) >= 1
        /\ Len(out[i]) <= BatchSize
        /\ Len(out[i]) < BatchSize =>
              /\ i = Len(out)
              /\ Len(Flat(out)) = num_examples

\* A finished pass of one full and one partial Batch.
C9_Witness ==
    /\ bpc = "end"
    /\ Len(out) = 2
    /\ Len(out[1]) = BatchSize
    /\ Len(out[2]) < BatchSize

\* The float32 f lies in [0, 1].
F32InUnit(f) ==
    \/ f.m = 0
    \/ f.x >= Significand
    \/ f = F32One

\* floor(f * 2^16), for f in [2^-16, 1].
F32Floor16(f) == IF f.m = 0 THEN 0 ELSE f.m \div 2^(f.x - 16)

(***************************************************************************)
(* C8: normalize_img maps a pixel of intensity p to the float32 of p/255   *)
(* (it agrees with p/255 on the leading 16 binary places), which lies in   *)
(* [0, 1], with 0 for 0 and 1 for 255; the label is returned unchanged     *)
(* and stays a digit.                                                      *)
(***************************************************************************)
C8_NormalizedInUnit ==
    npc = "mapped" =>
        /\ DOMAIN nimage = DOMAIN image
        /\ \A i \in DOMAIN image :
              /\ F32InUnit(nimage[i])
              /\ F32Floor16(nimage[i]) = (image[i] * 65536) \div MaxPixel
              /\ image[i] = 0 <=> nimage[i] = F32Zero
              /\ image[i] = MaxPixel <=> nimage[i] = F32One
        /\ nlabel = label
        /\ nlabel \in Labels

\* The brightest pixel of a Sample labelled 9 has been normalized.
C8_Witness ==
    /\ npc = "mapped"
    /\ label = NumClasses - 1
    /\ image[1] = MaxPixel
    /\ nimage[1] = F32One

(***************************************************************************)
(* C7 as stated: inference on an all-zero image gives 10 finite logits     *)
(* (no NaN), and the prediction is the index of the largest of them.       *)
(***************************************************************************)
C7_ZeroImageFiniteLogits ==
    (ipc \in {"predicted", "done"} /\ \A i \in UserIdx : uimage[i] = 0) =>
        /\ Len(logits) = NumClasses
        /\ \A k \in 1..NumClasses : IsFinite(logits[k])
        /\ ipc = "done" =>
              \A k \in 1..NumClasses :
                  logits[prediction + 1].num >= logits[k].num

=============================================================================
